---- MODULE Spec2Model ----
(***************************************************************************)
(* Model of crawler_wordlist.py: the bounded-concurrency crawl engine      *)
(* (crawl_async, crawl_url and the helpers they call).                     *)
(*                                                                         *)
(* A URL is modelled in its urlparse()d form, a record of components.      *)
(* A text is a sequence of one-character strings.  The network is the      *)
(* environment: the response to a GET is chosen when the fetch completes.  *)
(***************************************************************************)
EXTENDS Integers, Sequences, FiniteSets, TLC

\* ------------------------------------------------------------------ bounds
MaxPages == 3       \* max_pages ranges over 0..MaxPages
MaxWorkers == 2     \* workers ranges over 1..MaxWorkers
MaxDepthArg == 0    \* max_depth ranges over -1..MaxDepthArg
MaxLinks == 2       \* anchors per page
MaxQueue == 3       \* queue length at the loop head, in DequeueSpec
MaxWordLen == 2     \* length of a word of the corpus, in OutputSpec
MaxCorpus == 3      \* number of words of the corpus, in OutputSpec
MaxUrlLen == 4      \* length of a raw locator, in NormalizeSpec
MaxTextLen == 4     \* length of a text, in ExtractSpec

\* ------------------------------------------------------------------ URLs
\* The paths of the modelled site.
Paths == {"/", "/a", "/b"}
Fragments == {"", "top"}

\* The raw locators that appear as the seed or as an anchor's resolved href.
RawUrls ==
    [scheme : {"http"}, netloc : {"site"}, path : Paths, query : {""},
     fragment : Fragments]

\* normalize_url: scheme + "://" + netloc + path + ("?" + query if query);
\* the fragment component is the one that is not copied to the result.
normalize_url(url) ==
    [scheme |-> url.scheme, netloc |-> url.netloc, path |-> url.path,
     query |-> url.query, fragment |-> ""]

Addresses == {normalize_url(u) : u \in RawUrls}

\* extract_links: the set of normalize_url(urljoin(base, href)) over the
\* anchors; hrefs are the anchors' targets already resolved by urljoin.
extract_links(hrefs) == {normalize_url(h) : h \in hrefs}

\* ------------------------------------------------------------------ words
UpperCase ==
    <<"A","B","C","D","E","F","G","H","I","J","K","L","M",
      "N","O","P","Q","R","S","T","U","V","W","X","Y","Z">>
LowerCase ==
    <<"a","b","c","d","e","f","g","h","i","j","k","l","m",
      "n","o","p","q","r","s","t","u","v","w","x","y","z">>

\* str.lower() on one character
lower(c) ==
    IF \E i \in 1..Len(UpperCase) : UpperCase[i] = c
    THEN LowerCase[CHOOSE i \in 1..Len(UpperCase) : UpperCase[i] = c]
    ELSE c

\* The pattern [a-z0-9]+
WORD_PATTERN_WithDigits(c) ==
    \/ \E i \in 1..Len(LowerCase) : LowerCase[i] = c
    \/ c \in {"0", "1", "2", "3", "4", "5", "6", "7", "8", "9"}

\* WORD_PATTERN = [a-z]+ : the characters a run is made of
WORD_PATTERN(c) == \E i \in 1..Len(LowerCase) : LowerCase[i] = c

\* WORD_PATTERN.findall over text[i..], `run` being the match in progress
RECURSIVE findall(_, _, _)
findall(text, i, run) ==
    IF i > Len(text)
    THEN IF run = <<>> THEN {} ELSE {run}
    ELSE IF WORD_PATTERN(lower(text[i]))
         THEN findall(text, i + 1, Append(run, lower(text[i])))
         ELSE (IF run = <<>> THEN {} ELSE {run}) \cup findall(text, i + 1, <<>>)

\* extract_words: set(WORD_PATTERN.findall(text.lower()))
extract_words(text) == findall(text, 1, <<>>)

\* The visible texts a page of the modelled site can have.
Texts ==
    { <<"H", "i">>,
      <<"f", "o", "-", "B", "a", "1", " ", "f", "o">> }

\* ------------------------------------------------------------------ fetch
\* What can happen to one request: client.get or the parser raises
\* ("exception": timeout, DNS failure, malformed response or markup),
\* raise_for_status raises on a non-2xx status ("http_error"), or a 2xx
\* response arrives whose content type is HTML or not.  A 2xx response has
\* a body, whatever its content type: the text and anchors a parser would
\* find in it.
Responses ==
    {[kind |-> k, text |-> <<>>, hrefs |-> {}] :
        k \in {"exception", "http_error"}}
    \cup
    {[kind |-> k, text |-> t, hrefs |-> h] :
        k \in {"html", "non_html"},
        t \in Texts,
        h \in {s \in SUBSET RawUrls : Cardinality(s) <= MaxLinks}}

\* A value found in gather's result list: the tuple crawl_url returns, or
\* the exception object gather puts there (return_exceptions=True).
Tuple(url, words, links) ==
    [type |-> "tuple", url |-> url, words |-> words, links |-> links]
ExceptionValue(url) ==
    [type |-> "exception", url |-> url, words |-> {}, links |-> {}]

\* crawl_url without its `except Exception` clause: the exception leaves the
\* coroutine and gather hands it back as a value.
crawl_url_NoExcept(url, resp) ==
    IF resp.kind \in {"exception", "http_error"}
    THEN ExceptionValue(url)
    ELSE IF resp.kind = "non_html"
         THEN Tuple(url, {}, {})
         ELSE Tuple(url, extract_words(resp.text), extract_links(resp.hrefs))

\* crawl_url without the content-type test of lines 63-64.
crawl_url_NoContentType(url, resp) ==
    IF resp.kind \in {"exception", "http_error"}
    THEN Tuple(url, {}, {})
    ELSE Tuple(url, extract_words(resp.text), extract_links(resp.hrefs))

\* The body of crawl_url after the response is there.
crawl_url(url, resp) ==
    IF resp.kind \in {"exception", "http_error"}
    THEN Tuple(url, {}, {})                  \* except Exception
    ELSE IF resp.kind = "non_html"
         THEN Tuple(url, {}, {})
         ELSE Tuple(url, extract_words(resp.text), extract_links(resp.hrefs))

\* The fetch attempts the specification calls successful: a 2xx response
\* that was processed without an exception.
Succeeded(kind) == kind \in {"html", "non_html"}

\* ------------------------------------------------------------------ state
VARIABLES
    start_url, max_depth, max_pages, workers,   \* the arguments of crawl_async
    pc,               \* where crawl_async is
    visited,          \* set of addresses
    queue,            \* deque of (url, depth)
    all_words,        \* the word corpus
    pages_crawled,
    semaphore,        \* free slots of asyncio.Semaphore(workers)
    urls_to_crawl,    \* the batch taken from the queue
    tasks,            \* the crawl_url coroutines of the batch
    results,          \* what gather returned
    result_i,         \* position of `for result in results`
    links_left,       \* links of the current result not yet iterated
    enqueued,         \* history: how often each address was appended to queue
    dispatched,       \* history: how often each address was given to crawl_url
    produced_words,   \* history: the words of every value crawl_url produced
    sorted_words,     \* main: the list sorted(all_words)
    output_file,      \* main: the lines written to the output file
    raw_text,         \* extract_words: its argument
    word_set,         \* extract_words: its value
    raw_url,          \* normalize_url on a string: its argument
    normalized        \* normalize_url on a string: its value

args == <<start_url, max_depth, max_pages, workers>>
locals == <<urls_to_crawl, results, result_i, links_left>>
history == <<enqueued, dispatched, produced_words>>
main_locals == <<sorted_words, output_file>>
helpers == <<raw_text, word_set, raw_url, normalized>>
vars == <<start_url, max_depth, max_pages, workers, pc, visited, queue,
          all_words, pages_crawled, semaphore, urls_to_crawl, tasks, results,
          result_i, links_left, enqueued, dispatched, produced_words,
          sorted_words, output_file, raw_text, word_set, raw_url, normalized>>

Entry(url, depth) == [url |-> url, depth |-> depth]

\* The variables of main and of the helper functions while crawl_async runs.
Idle ==
    /\ sorted_words = <<>>
    /\ output_file = <<>>
    /\ raw_text = <<>>
    /\ word_set = {}
    /\ raw_url = <<>>
    /\ normalized = <<>>

Init ==
    /\ Idle
    /\ start_url \in {u \in RawUrls : u.path = "/" /\ u.fragment # ""}
    /\ max_depth \in -1..MaxDepthArg
    /\ max_pages \in 0..MaxPages
    /\ workers \in 1..MaxWorkers
    /\ pc = "start"
    /\ visited = {}
    /\ queue = <<>>
    /\ all_words = {}
    /\ pages_crawled = 0
    /\ semaphore = 0
    /\ urls_to_crawl = <<>>
    /\ tasks = <<>>
    /\ results = <<>>
    /\ result_i = 0
    /\ links_left = {}
    /\ enqueued = [a \in Addresses |-> 0]
    /\ dispatched = [a \in Addresses |-> 0]
    /\ produced_words = {}

\* ------------------------------------------------------------------ crawl_async
\* Lines 84-94 without line 86: the seed is queued but not recorded.
Start_NotRecorded ==
    /\ pc = "start"
    /\ visited' = {}
    /\ queue' = <<Entry(normalize_url(start_url), 0)>>
    /\ all_words' = {}
    /\ semaphore' = workers
    /\ pages_crawled' = 0
    /\ enqueued' = [enqueued EXCEPT ![normalize_url(start_url)] = @ + 1]
    /\ pc' = "loop"
    /\ UNCHANGED <<main_locals, helpers>>
    /\ UNCHANGED <<args, locals, tasks, dispatched, produced_words>>

\* Lines 84-94: the seed goes into the queue and the visited set.
Start ==
    /\ pc = "start"
    /\ visited' = {normalize_url(start_url)}
    /\ queue' = <<Entry(normalize_url(start_url), 0)>>
    /\ all_words' = {}
    /\ semaphore' = workers
    /\ pages_crawled' = 0
    /\ enqueued' = [enqueued EXCEPT ![normalize_url(start_url)] = @ + 1]
    /\ pc' = "loop"
    /\ UNCHANGED <<main_locals, helpers>>
    /\ UNCHANGED <<args, locals, tasks, dispatched, produced_words>>

\* A loop test that stops one page short of the budget.
LoopTest_Strict(q, crawled, budget) == q # <<>> /\ crawled + 1 < budget

\* Line 102: the loop test.
LoopTest(q, crawled, budget) == q # <<>> /\ crawled < budget

\* The inner loop with pop() in place of popleft().
RECURSIVE dequeue_batch_Lifo(_, _, _, _)
dequeue_batch_Lifo(q, batch, limit, maxd) ==
    IF q # <<>> /\ Len(batch) < limit
    THEN LET last == q[Len(q)]
             rest == SubSeq(q, 1, Len(q) - 1)
         IN IF last.depth > maxd
            THEN dequeue_batch_Lifo(rest, batch, limit, maxd)
            ELSE dequeue_batch_Lifo(rest, Append(batch, last), limit, maxd)
    ELSE [queue |-> q, batch |-> batch]

\* The inner loop without the depth test of line 107.
RECURSIVE dequeue_batch_NoDepthTest(_, _, _, _)
dequeue_batch_NoDepthTest(q, batch, limit, maxd) ==
    IF q # <<>> /\ Len(batch) < limit
    THEN dequeue_batch_NoDepthTest(Tail(q), Append(batch, Head(q)), limit, maxd)
    ELSE [queue |-> q, batch |-> batch]

\* Lines 105-109: pop from the left until the batch has `limit` entries or
\* the queue is empty; an entry deeper than max_depth is dropped.
RECURSIVE dequeue_batch(_, _, _, _)
dequeue_batch(q, batch, limit, maxd) ==
    IF q # <<>> /\ Len(batch) < limit
    THEN IF Head(q).depth > maxd
         THEN dequeue_batch(Tail(q), batch, limit, maxd)
         ELSE dequeue_batch(Tail(q), Append(batch, Head(q)), limit, maxd)
    ELSE [queue |-> q, batch |-> batch]

NewTask(url) == [url |-> url, state |-> "waiting", kind |-> "", result |-> <<>>]

Bump(count, batch) ==
    [a \in DOMAIN count |->
        count[a] + Cardinality({i \in 1..Len(batch) : batch[i].url = a})]

\* Lines 102-114: one pass of the loop head up to the gather call.
DequeueBatch ==
    /\ pc = "loop"
    /\ LoopTest(queue, pages_crawled, max_pages)
    /\ LET d == dequeue_batch(queue, <<>>, workers * 2, max_depth) IN
        /\ queue' = d.queue
        /\ urls_to_crawl' = d.batch
        /\ IF d.batch = <<>>
           THEN /\ pc' = "done"                               \* break
                /\ UNCHANGED <<tasks, dispatched>>
           ELSE /\ pc' = "gather"
                /\ tasks' = [i \in 1..Len(d.batch) |-> NewTask(d.batch[i].url)]
                /\ dispatched' = Bump(dispatched, d.batch)
    /\ UNCHANGED <<main_locals, helpers>>
    /\ UNCHANGED <<args, visited, all_words, pages_crawled, semaphore, results,
                   result_i, links_left, enqueued, produced_words>>

\* Lines 102, 138: the loop test fails and crawl_async returns.
LoopExit ==
    /\ pc = "loop"
    /\ ~LoopTest(queue, pages_crawled, max_pages)
    /\ pc' = "done"
    /\ UNCHANGED <<main_locals, helpers>>
    /\ UNCHANGED <<args, visited, queue, all_words, pages_crawled, semaphore,
                   locals, tasks, history>>

\* ------------------------------------------------------------------ crawl_url
\* A limiter that lets every task in.
CanAcquire_Always(sem) == TRUE

\* Line 58, entry of `async with semaphore`: a slot must be free; waiters
\* are served in the order the tasks were created.
CanAcquire(sem) == sem > 0

Acquire(i) ==
    /\ pc = "gather"
    /\ tasks[i].state = "waiting"
    /\ \A j \in 1..(i - 1) : tasks[j].state # "waiting"
    /\ CanAcquire(semaphore)
    /\ semaphore' = semaphore - 1
    /\ tasks' = [tasks EXCEPT ![i].state = "fetching"]
    /\ UNCHANGED <<main_locals, helpers>>
    /\ UNCHANGED <<args, pc, visited, queue, all_words, pages_crawled, locals,
                   history>>

\* An exit of the block that keeps the slot.
Release_Forgotten(sem) == sem

\* Line 58, exit of `async with semaphore`, on every path out of the block.
Release(sem) == sem + 1

\* Lines 60-79 and the exit of `async with`: the response arrives, the
\* task computes its value and gives the slot back.
Complete(i, resp) ==
    /\ pc = "gather"
    /\ tasks[i].state = "fetching"
    /\ LET value == crawl_url(tasks[i].url, resp) IN
        /\ tasks' = [tasks EXCEPT ![i] = [url |-> @.url, state |-> "done",
                                          kind |-> resp.kind, result |-> value]]
        /\ produced_words' = produced_words \cup value.words
    /\ semaphore' = Release(semaphore)
    /\ UNCHANGED <<main_locals, helpers>>
    /\ UNCHANGED <<args, pc, visited, queue, all_words, pages_crawled, locals,
                   enqueued, dispatched>>

\* A gather that returns at the first finished task.
GatherReady_Any(ts) == \E i \in 1..Len(ts) : ts[i].state = "done"

\* Line 116: gather returns once every task of the batch has finished.
GatherReady(ts) == \A i \in 1..Len(ts) : ts[i].state = "done"

Gather ==
    /\ pc = "gather"
    /\ GatherReady(tasks)
    /\ results' = [i \in 1..Len(tasks) |-> tasks[i].result]
    /\ result_i' = 1
    /\ pc' = "merge"
    /\ UNCHANGED <<main_locals, helpers>>
    /\ UNCHANGED <<args, visited, queue, all_words, pages_crawled, semaphore,
                   urls_to_crawl, tasks, links_left, history>>

\* ------------------------------------------------------------------ merge
\* Line 119
IsTuple(result) == result.type = "tuple"

\* Line 121
Counted(crawled, result) == crawled + 1

\* A merge that assigns the page's words instead of adding them.
Update_Replace(corpus, words) == words

\* Line 122
Update(corpus, words) == corpus \cup words

\* Line 125 without the budget test, and without the membership test.
MayEnqueue_NoBudget(link, seen, budget) == link \notin seen
MayEnqueue_NoVisitedCheck(link, seen, budget) == Cardinality(seen) < budget

\* Line 125
MayEnqueue(link, seen, budget) == link \notin seen /\ Cardinality(seen) < budget

\* A link one level below the page that holds it.
LinkDepth_Parent(parent_depth) == parent_depth + 1

\* Line 127: the depth a discovered link is enqueued with.
LinkDepth(parent_depth) == 0

\* The end of one iteration of `for result in results`.
NextResult ==
    IF result_i < Len(results)
    THEN result_i' = result_i + 1 /\ pc' = "merge"
    ELSE result_i' = result_i /\ pc' = "loop"

\* Lines 118-122: one result of the batch is taken up.
MergeResult ==
    /\ pc = "merge"
    /\ LET result == results[result_i] IN
        IF IsTuple(result)
        THEN /\ pages_crawled' = Counted(pages_crawled, result)
             /\ all_words' = Update(all_words, result.words)
             /\ links_left' = result.links
             /\ IF result.links = {}
                THEN NextResult
                ELSE result_i' = result_i /\ pc' = "links"
        ELSE /\ UNCHANGED <<pages_crawled, all_words, links_left>>
             /\ NextResult
    /\ UNCHANGED <<main_locals, helpers>>
    /\ UNCHANGED <<args, visited, queue, semaphore, urls_to_crawl, tasks,
                   results, history>>

\* Lines 124-127: one link of the current result; a set is iterated in an
\* order the program does not fix.
MergeLink(link) ==
    /\ pc = "links"
    /\ link \in links_left
    /\ links_left' = links_left \ {link}
    /\ IF MayEnqueue(link, visited, max_pages)
       THEN /\ visited' = visited \cup {link}
            /\ queue' = Append(queue,
                    Entry(link, LinkDepth(urls_to_crawl[result_i].depth)))
            /\ enqueued' = [enqueued EXCEPT ![link] = @ + 1]
       ELSE UNCHANGED <<visited, queue, enqueued>>
    /\ IF links_left' = {}
       THEN NextResult
       ELSE result_i' = result_i /\ pc' = "links"
    /\ UNCHANGED <<main_locals, helpers>>
    /\ UNCHANGED <<args, all_words, pages_crawled, semaphore, urls_to_crawl,
                   tasks, results, dispatched, produced_words>>

\* Line 138: the value crawl_async returns.
Returned == <<pages_crawled, all_words>>

Next ==
    \/ Start
    \/ DequeueBatch
    \/ LoopExit
    \/ \E i \in 1..Len(tasks) : Acquire(i)
    \/ \E i \in 1..Len(tasks), resp \in Responses : Complete(i, resp)
    \/ Gather
    \/ MergeResult
    \/ \E link \in Addresses : MergeLink(link)

Spec == Init /\ [][Next]_vars

\* The event loop runs whatever is ready: crawl_async goes on whenever it is
\* not awaiting, a waiting task gets a slot that is free, and every request
\* ends (line 60 sets a timeout of 20 seconds).
Orchestrator ==
    \/ Start
    \/ DequeueBatch
    \/ LoopExit
    \/ Gather
    \/ MergeResult
    \/ \E link \in Addresses : MergeLink(link)

Fairness ==
    /\ WF_vars(Orchestrator)
    /\ WF_vars(\E i \in 1..Len(tasks) : Acquire(i))
    /\ WF_vars(\E i \in 1..Len(tasks), resp \in Responses : Complete(i, resp))

FairSpec == Spec /\ Fairness

\* ------------------------------------------------------------------ main
\* ord() of a character of a word
ord(c) == 96 + CHOOSE i \in 1..Len(LowerCase) : LowerCase[i] = c

\* A comparison that puts the shorter word first.
RECURSIVE str_lt_ShortFirst(_, _)
str_lt_ShortFirst(a, b) ==
    IF Len(a) # Len(b) THEN Len(a) < Len(b)
    ELSE IF a = <<>> THEN FALSE
    ELSE IF ord(Head(a)) # ord(Head(b)) THEN ord(Head(a)) < ord(Head(b))
    ELSE str_lt_ShortFirst(Tail(a), Tail(b))

\* a < b on two str: the first differing character decides, and a proper
\* prefix is smaller.
RECURSIVE str_lt(_, _)
str_lt(a, b) ==
    IF a = <<>> THEN b # <<>>
    ELSE IF b = <<>> THEN FALSE
    ELSE IF ord(Head(a)) # ord(Head(b)) THEN ord(Head(a)) < ord(Head(b))
    ELSE str_lt(Tail(a), Tail(b))

\* The stable place of w in a sorted list.
RECURSIVE insort(_, _)
insort(w, lst) ==
    IF lst = <<>> THEN <<w>>
    ELSE IF str_lt(w, Head(lst)) THEN <<w>> \o lst
    ELSE <<Head(lst)>> \o insort(w, Tail(lst))

\* sorted(iterable): the stable sort of the items in iteration order
RECURSIVE sorted(_)
sorted(lst) ==
    IF lst = <<>> THEN <<>>
    ELSE insort(lst[Len(lst)], sorted(SubSeq(lst, 1, Len(lst) - 1)))

\* The orders in which a set can be iterated.
Orders(S) ==
    {f \in [1..Cardinality(S) -> S] :
        \A i, j \in 1..Cardinality(S) : i # j => f[i] # f[j]}

\* Line 165: sorted_words = sorted(all_words)
SortWords ==
    /\ pc = "done"
    /\ \E order \in Orders(all_words) : sorted_words' = sorted(order)
    /\ pc' = "sorted"
    /\ UNCHANGED <<output_file, helpers, args, visited, queue, all_words,
                   pages_crawled, semaphore, locals, tasks, history>>

\* Lines 166-168: one line per word, the word and a newline.
WriteFile ==
    /\ pc = "sorted"
    /\ output_file' =
        [i \in 1..Len(sorted_words) |-> sorted_words[i] \o <<"\n">>]
    /\ pc' = "written"
    /\ UNCHANGED <<sorted_words, helpers, args, visited, queue, all_words,
                   pages_crawled, semaphore, locals, tasks, history>>

\* The words a corpus can hold: non-empty strings of lower-case letters.
RECURSIVE StringsOver(_, _)
StringsOver(alphabet, n) ==
    IF n = 0 THEN {<<>>}
    ELSE StringsOver(alphabet, n - 1) \cup
         {Append(w, c) : w \in StringsOver(alphabet, n - 1), c \in alphabet}

CorpusWords == StringsOver({"a", "b"}, MaxWordLen) \ {<<>>}

\* main at line 162: crawl_async has returned some corpus.
InitMain ==
    /\ Idle
    /\ pc = "done"
    /\ all_words \in {c \in SUBSET CorpusWords : Cardinality(c) <= MaxCorpus}
    /\ start_url \in {u \in RawUrls : u.path = "/" /\ u.fragment # ""}
    /\ max_depth = 0
    /\ max_pages = Cardinality(all_words)
    /\ workers = 1
    /\ visited = {normalize_url(start_url)}
    /\ queue = <<>>
    /\ pages_crawled = IF all_words = {} THEN 0 ELSE 1
    /\ semaphore = workers
    /\ urls_to_crawl = <<>>
    /\ tasks = <<>>
    /\ results = <<>>
    /\ result_i = 0
    /\ links_left = {}
    /\ enqueued = [a \in Addresses |-> IF a \in visited THEN 1 ELSE 0]
    /\ dispatched = [a \in Addresses |-> 0]
    /\ produced_words = all_words

NextMain ==
    \/ SortWords
    \/ WriteFile

OutputSpec == InitMain /\ [][NextMain]_vars

\* ------------------------------------------------------------------ urlparse
\* normalize_url on the locator as the string it is.  A string is a sequence
\* of one-character strings.
\* s.find(c, start) with positions counted from 1; 0 when c is not found
Find(s, c, start) ==
    IF \E i \in start..Len(s) : s[i] = c
    THEN CHOOSE i \in start..Len(s) :
            s[i] = c /\ \A j \in start..(i - 1) : s[j] # c
    ELSE 0

\* s.rfind(c); 0 when c is not found
RFind(s, c) ==
    IF \E i \in 1..Len(s) : s[i] = c
    THEN CHOOSE i \in 1..Len(s) :
            s[i] = c /\ \A j \in (i + 1)..Len(s) : s[j] # c
    ELSE 0

Slice(s, from, to) == SubSeq(s, from, to)
lower_str(s) == [i \in 1..Len(s) |-> lower(s[i])]

IsAlpha(c) == WORD_PATTERN(lower(c))
scheme_chars(c) ==
    IsAlpha(c) \/ c \in {"0","1","2","3","4","5","6","7","8","9","+","-","."}

uses_params ==
    { <<>>, <<"f","t","p">>, <<"h","d","l">>,
      <<"p","r","o","s","p","e","r","o">>, <<"h","t","t","p">>,
      <<"i","m","a","p">>, <<"h","t","t","p","s">>,
      <<"s","h","t","t","p">>, <<"r","t","s","p">>,
      <<"r","t","s","p","u">>, <<"s","i","p">>, <<"s","i","p","s">>,
      <<"m","m","s">>, <<"s","f","t","p">>, <<"t","e","l">> }

\* urlsplit, step 1: a leading run of scheme characters that starts with a
\* letter and ends at the first ":" is the scheme, lower-cased.
SplitScheme(u) ==
    LET i == Find(u, ":", 1) IN
    IF i > 1 /\ IsAlpha(u[1]) /\ \A k \in 1..(i - 1) : scheme_chars(u[k])
    THEN [scheme |-> lower_str(Slice(u, 1, i - 1)),
          rest |-> Slice(u, i + 1, Len(u))]
    ELSE [scheme |-> <<>>, rest |-> u]

\* urlsplit, step 2 (_splitnetloc): after "//" the netloc runs to the first
\* of "/", "?", "#".
SplitNetloc(u) ==
    IF Len(u) >= 2 /\ u[1] = "/" /\ u[2] = "/"
    THEN LET ends == {i \in 3..Len(u) : u[i] \in {"/", "?", "#"}}
             delim == IF ends = {} THEN Len(u) + 1
                      ELSE CHOOSE i \in ends : \A j \in ends : i <= j
         IN [netloc |-> Slice(u, 3, delim - 1),
             rest |-> Slice(u, delim, Len(u))]
    ELSE [netloc |-> <<>>, rest |-> u]

\* url.split(c, 1) when c is in url
SplitAt(u, c) ==
    LET i == Find(u, c, 1) IN
    IF i > 0
    THEN [head |-> Slice(u, 1, i - 1), tail |-> Slice(u, i + 1, Len(u))]
    ELSE [head |-> u, tail |-> <<>>]

\* _splitparams: the parameters of the last path segment
SplitParams(path) ==
    LET i == IF Find(path, "/", 1) > 0
             THEN Find(path, ";", RFind(path, "/"))
             ELSE Find(path, ";", 1)
    IN IF i = 0
       THEN [head |-> path, tail |-> <<>>]
       ELSE [head |-> Slice(path, 1, i - 1),
             tail |-> Slice(path, i + 1, Len(path))]

\* Line 36: urlparse(url)
urlparse(u) ==
    LET s == SplitScheme(u)
        n == SplitNetloc(s.rest)
        f == SplitAt(n.rest, "#")
        q == SplitAt(f.head, "?")
        p == IF s.scheme \in uses_params /\ Find(q.head, ";", 1) > 0
             THEN SplitParams(q.head)
             ELSE [head |-> q.head, tail |-> <<>>]
    IN [scheme |-> s.scheme, netloc |-> n.netloc, path |-> p.head,
        params |-> p.tail, query |-> q.tail, fragment |-> f.tail]

\* Line 37 on strings
normalize_url_str(u) ==
    LET parsed == urlparse(u) IN
    parsed.scheme \o <<":", "/", "/">> \o parsed.netloc \o parsed.path \o
    (IF parsed.query # <<>> THEN <<"?">> \o parsed.query ELSE <<>>)

UrlAlphabet == {"a", "A", ":", "/", "?", "#", ";"}

\* The variables of crawl_async and main when neither is running.
Parked ==
    /\ start_url \in {u \in RawUrls : u.path = "/" /\ u.fragment # ""}
    /\ max_depth = 0
    /\ max_pages = 0
    /\ workers = 1
    /\ visited = {}
    /\ queue = <<>>
    /\ all_words = {}
    /\ pages_crawled = 0
    /\ semaphore = 0
    /\ urls_to_crawl = <<>>
    /\ tasks = <<>>
    /\ results = <<>>
    /\ result_i = 0
    /\ links_left = {}
    /\ enqueued = [a \in Addresses |-> 0]
    /\ dispatched = [a \in Addresses |-> 0]
    /\ produced_words = {}
    /\ sorted_words = <<>>
    /\ output_file = <<>>

\* A call of normalize_url on some raw locator, outside any crawl.
InitNormalize ==
    /\ Parked
    /\ pc = "normalize"
    /\ raw_url \in StringsOver(UrlAlphabet, MaxUrlLen) \ {<<>>}
    /\ normalized = <<>>
    /\ raw_text = <<>>
    /\ word_set = {}

Normalize ==
    /\ pc = "normalize"
    /\ normalized' = normalize_url_str(raw_url)
    /\ pc' = "normalized"
    /\ UNCHANGED <<raw_url, raw_text, word_set, main_locals, args, visited,
                   queue, all_words, pages_crawled, semaphore, locals, tasks,
                   history>>

NextNormalize == Normalize

NormalizeSpec == InitNormalize /\ [][NextNormalize]_vars

\* ------------------------------------------------------------------ extract_words
TextAlphabet == {"a", "B", "b", "-", "1", " "}

\* A call of extract_words on some text, outside any crawl.
InitExtract ==
    /\ Parked
    /\ pc = "extract"
    /\ raw_text \in StringsOver(TextAlphabet, MaxTextLen)
    /\ word_set = {}
    /\ raw_url = <<>>
    /\ normalized = <<>>

\* Line 42
Extract ==
    /\ pc = "extract"
    /\ word_set' = extract_words(raw_text)
    /\ pc' = "extracted"
    /\ UNCHANGED <<raw_text, raw_url, normalized, main_locals, args, visited,
                   queue, all_words, pages_crawled, semaphore, locals, tasks,
                   history>>

NextExtract == Extract

ExtractSpec == InitExtract /\ [][NextExtract]_vars

\* ------------------------------------------------------------------ loop head
\* crawl_async at line 102 on a site larger than the one Spec crawls: the
\* queue holds up to MaxQueue distinct addresses, all at depth 0, found by
\* pages fetched before; or it holds the seed, before the first batch.
QueuePaths == Paths \cup {"/c", "/d"}
QueueAddresses ==
    {normalize_url(u) :
        u \in [scheme : {"http"}, netloc : {"site"}, path : QueuePaths,
               query : {""}, fragment : {""}]}

Urls(q) == {q[k].url : k \in 1..Len(q)}

QueuesAtLoopHead(seed) ==
    {<<Entry(seed, 0)>>} \cup
    UNION {{[k \in 1..n |-> Entry(f[k], 0)] :
                f \in {g \in [1..n -> QueueAddresses \ {seed}] :
                          \A i, j \in 1..n : i # j => g[i] # g[j]}} :
           n \in 0..MaxQueue}

InitDequeue ==
    /\ Idle
    /\ start_url \in {u \in RawUrls : u.path = "/" /\ u.fragment # ""}
    /\ max_depth \in -1..MaxDepthArg
    /\ workers \in 1..MaxWorkers
    /\ pc = "loop"
    /\ queue \in QueuesAtLoopHead(normalize_url(start_url))
    /\ max_depth < 0 => queue = <<Entry(normalize_url(start_url), 0)>>
    /\ visited = {normalize_url(start_url)} \cup Urls(queue)
    /\ pages_crawled = Cardinality(visited \ Urls(queue))
    /\ max_pages \in {Cardinality(visited), Cardinality(visited) + 1}
    /\ all_words = {}
    /\ semaphore = workers
    /\ urls_to_crawl = <<>>
    /\ tasks = <<>>
    /\ results = <<>>
    /\ result_i = 0
    /\ links_left = {}
    /\ enqueued = [a \in QueueAddresses |-> IF a \in visited THEN 1 ELSE 0]
    /\ dispatched =
        [a \in QueueAddresses |-> IF a \in visited \ Urls(queue) THEN 1 ELSE 0]
    /\ produced_words = {}

NextDequeue ==
    \/ DequeueBatch
    \/ LoopExit

DequeueSpec == InitDequeue /\ [][NextDequeue]_vars

\* ------------------------------------------------------------------ claims
Outstanding == \E i \in 1..Len(tasks) : tasks[i].state # "done"
Fetching == {i \in 1..Len(tasks) : tasks[i].state = "fetching"}
Seed == normalize_url(start_url)

\* C1: in every state, and so in the returned value, the pages-crawled
\* counter is at most the page budget max_pages.
PagesWithinBudget == pages_crawled <= max_pages

\* C1 witness: the crawl has returned with the budget used up to the last
\* page, the last batch having counted more than one result.
PagesWithinBudget_Witness ==
    /\ pc = "done"
    /\ Len(results) >= 2
    /\ pages_crawled = max_pages

\* C2: in every state the visited set has at most max_pages addresses,
\* for every budget >= 0, the seed counted.
VisitedWithinBudget == Cardinality(visited) <= max_pages

\* C3: no address is appended to the queue more than once and no address
\* is given to a fetch more than once.
ExactlyOnce ==
    \A a \in Addresses : enqueued[a] <= 1 /\ dispatched[a] <= 1

\* C3 witness: the crawl is over, every address was enqueued and fetched,
\* and a page of the last batch linked to the seed and to an address of its
\* own batch whose fetch failed.
ExactlyOnce_Witness ==
    /\ pc = "done"
    /\ \A a \in Addresses : enqueued[a] = 1 /\ dispatched[a] = 1
    /\ \E i, j \in 1..Len(tasks) :
        /\ ~Succeeded(tasks[i].kind)
        /\ tasks[i].url \in tasks[j].result.links
        /\ Seed \in tasks[j].result.links

\* C4: the number of fetches holding a limiter slot never exceeds workers,
\* and every slot taken is given back: free slots plus fetches in the
\* request always add up to workers.
ConcurrencyCap ==
    pc # "start" =>
        /\ Cardinality(Fetching) <= workers
        /\ semaphore + Cardinality(Fetching) = workers
        /\ semaphore >= 0

\* C4 witness: a batch larger than workers, every slot taken and a task kept
\* waiting for one.
ConcurrencyCap_Witness ==
    /\ pc = "gather"
    /\ Len(tasks) > workers
    /\ Cardinality(Fetching) = workers
    /\ \E i \in 1..Len(tasks) : tasks[i].state = "waiting"

\* C5: gather's results never hold an error value; and once a batch is
\* merged, every successful page of it has its words in the corpus and
\* each of its links in the visited set unless the budget is used up,
\* whatever happened to the other fetches of the batch.
FailureIsolation ==
    /\ \A i \in 1..Len(results) : IsTuple(results[i])
    /\ \A i \in 1..Len(tasks) : tasks[i].state = "done" => IsTuple(tasks[i].result)
    /\ (pc \in {"loop", "done"} /\ results # <<>>) =>
        \A i \in 1..Len(tasks) :
            tasks[i].kind = "html" =>
                /\ tasks[i].result.words \subseteq all_words
                /\ \A link \in tasks[i].result.links :
                    link \in visited \/ Cardinality(visited) >= max_pages

\* C5 witness: a merged batch whose first fetch raised and whose second
\* brought words and links; the orchestrator is back at the loop test.
FailureIsolation_Witness ==
    /\ pc = "loop"
    /\ Len(results) = 2
    /\ tasks[1].kind = "exception"
    /\ tasks[2].kind = "html"
    /\ tasks[2].result.words # {}
    /\ tasks[2].result.links # {}
    /\ tasks[2].result.words \subseteq all_words

\* C6: the counter goes up by one when the merged result is that of a
\* successful fetch and stays as it is when the fetch failed.
OnlySuccessCounted ==
    [][pc = "merge" =>
        pages_crawled' = pages_crawled +
            (IF Succeeded(tasks[result_i].kind) THEN 1 ELSE 0)]_vars

\* C7: when the fetch of the seed fails, crawl_async returns zero pages and
\* an empty corpus.
SeedFailureReportsZero ==
    (/\ pc = "done"
     /\ Len(tasks) = 1
     /\ tasks[1].url = Seed
     /\ ~Succeeded(tasks[1].kind))
    => Returned = <<0, {}>>

\* C8: while a fetch of the batch is outstanding the orchestrator is inside
\* gather and visited, queue, corpus and counter do not change; so merges
\* happen after the whole batch and before any fetch of the next one.
BatchAtomicity ==
    /\ [](Outstanding => pc = "gather")
    /\ [][Outstanding =>
            UNCHANGED <<visited, queue, all_words, pages_crawled>>]_vars

\* C8 witness: one fetch of a batch has finished with words and links that
\* are not merged yet, and another fetch of the batch is still in flight.
BatchAtomicity_Witness ==
    \E i, j \in 1..Len(tasks) :
        /\ tasks[i].state = "done"
        /\ tasks[i].result.words # {}
        /\ ~(tasks[i].result.words \subseteq all_words)
        /\ tasks[i].result.links # {}
        /\ tasks[j].state = "fetching"

\* C9: the corpus never loses a word from one state to the next, and the
\* corpus returned is the union of the words of all page results produced.
MonotonicCorpus ==
    /\ [][all_words \subseteq all_words']_vars
    /\ [](pc = "done" => all_words = produced_words)

\* C9 witness: the crawl returned a corpus that no single page holds.
MonotonicCorpus_Witness ==
    /\ pc = "done"
    /\ pages_crawled >= 2
    /\ \A t \in Texts : extract_words(t) \subseteq all_words
    /\ \A t \in Texts : extract_words(t) # all_words

\* C10: every addition to the queue, the seed's included, is of an address
\* that is not in visited while visited is below the budget, and puts the
\* address in visited in the same step; and every link offered in that
\* situation is added.
EnqueueContract ==
    [][/\ \A a \in Addresses :
            enqueued'[a] > enqueued[a] =>
                /\ a \notin visited
                /\ Cardinality(visited) < max_pages
                /\ a \in visited'
                /\ queue' = Append(queue, Entry(a, 0))
       /\ pc = "links" =>
            \A link \in links_left \ links_left' :
                (link \notin visited /\ Cardinality(visited) < max_pages) =>
                    enqueued'[link] = enqueued[link] + 1]_vars

\* C11: a pass of the loop head takes its batch from the head of the queue
\* in queue order: the batch is the admitted entries of a prefix of the
\* queue, it has at most 2 * workers entries, entries over the maximum depth
\* are dropped without being counted (if anything is left in the queue the
\* batch is full), and the tasks are created in the order of the batch.
Admitted(e) == e.depth <= max_depth

BatchDequeue ==
    [][(pc = "loop" /\ LoopTest(queue, pages_crawled, max_pages)) =>
        LET n == Len(queue) - Len(queue') IN
            /\ n >= 0
            /\ queue' = SubSeq(queue, n + 1, Len(queue))
            /\ urls_to_crawl' = SelectSeq(SubSeq(queue, 1, n), Admitted)
            /\ Len(urls_to_crawl') <= 2 * workers
            /\ queue' # <<>> => Len(urls_to_crawl') = 2 * workers
            /\ pc' = "gather" =>
                /\ Len(tasks') = Len(urls_to_crawl')
                /\ \A i \in 1..Len(tasks') :
                    tasks'[i].url = urls_to_crawl'[i].url]_vars

\* C11 witness: a batch of 2 * workers entries was taken and a later entry
\* stayed in the queue for the next batch.
BatchDequeue_Witness ==
    /\ pc = "gather"
    /\ Len(urls_to_crawl) = 2 * workers
    /\ queue # <<>>

\* C12: merging the result of a 2xx response that is not HTML adds one to
\* the pages-crawled counter and leaves corpus, visited set and queue as
\* they are; none of its links is iterated.
NonHtmlCounted ==
    [][(pc = "merge" /\ tasks[result_i].kind = "non_html") =>
        /\ pages_crawled' = pages_crawled + 1
        /\ all_words' = all_words
        /\ visited' = visited
        /\ queue' = queue
        /\ pc' # "links"]_vars

\* C12 witness: the seed was answered with a non-HTML body; crawl_async has
\* returned having used its budget of one page on it, with no words.
NonHtmlCounted_Witness ==
    /\ pc = "done"
    /\ Len(tasks) = 1
    /\ tasks[1].kind = "non_html"
    /\ max_pages = 1
    /\ Returned = <<1, {}>>
    /\ queue = <<>>

\* C13: the lines written are the words of the corpus, each once, each
\* followed by a newline, in ascending lexicographic order; and the list
\* main writes is the same for every order in which the set is iterated.
LexLess(a, b) ==
    \E k \in 1..(Len(a) + 1) :
        /\ k <= Len(b)
        /\ \A i \in 1..(k - 1) : a[i] = b[i]
        /\ k <= Len(a) => ord(a[k]) < ord(b[k])

Chomp(line) == SubSeq(line, 1, Len(line) - 1)

OutputDeterminism ==
    /\ pc \in {"sorted", "written"} =>
        \A order \in Orders(all_words) : sorted(order) = sorted_words
    /\ pc = "written" =>
        /\ Len(output_file) = Cardinality(all_words)
        /\ \A w \in all_words :
            \E i \in 1..Len(output_file) : output_file[i] = w \o <<"\n">>
        /\ \A i, j \in 1..Len(output_file) :
            i < j => LexLess(Chomp(output_file[i]), Chomp(output_file[j]))

\* C13 witness: a corpus of three words, one a proper prefix of another and
\* one longer word that sorts before a shorter one, has been written.
OutputDeterminism_Witness ==
    /\ pc = "written"
    /\ all_words = {<<"b">>, <<"a", "b">>, <<"a">>}
    /\ Len(output_file) = 3

\* C14: normalizing the value of normalize_url gives that value again, for
\* every raw locator; and a locator normalizes to the same value with any
\* fragment, or none, after it.
FragmentBlind ==
    LET base == SplitAt(raw_url, "#").head IN
    \A frag \in StringsOver(UrlAlphabet, 2) :
        normalize_url_str(base \o <<"#">> \o frag) = normalize_url_str(base)

IdempotentNormalization ==
    pc = "normalized" =>
        /\ normalize_url_str(normalized) = normalized
        /\ FragmentBlind

\* C15: extract_words returns exactly the maximal runs of the letters a-z
\* in the lower-cased text, as a set: no token is empty, none holds a digit,
\* a hyphen or a blank, and a letter next to a token's end is never left out.
AsciiLetters == {LowerCase[i] : i \in 1..Len(LowerCase)}

MaximalRuns(t) ==
    {SubSeq(t, i, j) : <<i, j>> \in
        {r \in (1..Len(t)) \X (1..Len(t)) :
            /\ r[1] <= r[2]
            /\ \A k \in r[1]..r[2] : t[k] \in AsciiLetters
            /\ r[1] = 1 \/ t[r[1] - 1] \notin AsciiLetters
            /\ r[2] = Len(t) \/ t[r[2] + 1] \notin AsciiLetters}}

WordExtraction ==
    pc = "extracted" =>
        /\ word_set = MaximalRuns(lower_str(raw_text))
        /\ \A w \in word_set :
            w # <<>> /\ \A k \in 1..Len(w) : w[k] \in AsciiLetters

\* C15 witness: a text with an upper-case letter, a hyphen between two
\* occurrences of the same word, and a digit; one token comes out.
WordExtraction_Witness ==
    /\ pc = "extracted"
    /\ raw_text = <<"B", "-", "b", "1">>
    /\ word_set = {<<"b">>}

\* C16: every entry of the queue and of a batch has depth 0, and with a
\* maximum depth of 0 or more a pass of the loop head drops nothing: every
\* entry it removes from the queue is in the batch.
DepthAlwaysZero ==
    /\ [](/\ \A k \in 1..Len(queue) : queue[k].depth = 0
          /\ \A k \in 1..Len(urls_to_crawl) : urls_to_crawl[k].depth = 0)
    /\ [][(/\ max_depth >= 0
           /\ pc = "loop"
           /\ LoopTest(queue, pages_crawled, max_pages)) =>
            /\ Len(urls_to_crawl') = Len(queue) - Len(queue')
            /\ pc' = "gather"]_vars

\* C16 witness: with maximum depth 0 the crawl has fetched, in a batch of
\* its own, an address found on a page that the seed linked to, two links
\* away from the seed.
DepthAlwaysZero_Witness ==
    /\ pc = "done"
    /\ max_depth = 0
    /\ Len(tasks) = 1
    /\ tasks[1].url # Seed
    /\ \A a \in Addresses : dispatched[a] = 1
    /\ pages_crawled = Cardinality(Addresses)

\* C17: when requests end and the limiter and the event loop are fair,
\* crawl_async eventually returns, and every task that waits for a limiter
\* slot eventually has had one.
WaitsForSlot(i) == pc = "gather" /\ i <= Len(tasks) /\ tasks[i].state = "waiting"
HasHadSlot(i) == i <= Len(tasks) /\ tasks[i].state # "waiting"

Termination ==
    /\ <>(pc = "done")
    /\ \A i \in 1..(2 * MaxWorkers) : WaitsForSlot(i) ~> HasHadSlot(i)

\* C17 witness: crawl_async has returned after a batch of two tasks shared
\* one slot, on a site whose pages link back to the seed and to each other.
Termination_Witness ==
    /\ pc = "done"
    /\ workers = 1
    /\ Len(tasks) = 2
    /\ Seed \in tasks[2].result.links
    /\ tasks[1].url \in tasks[2].result.links
    /\ tasks[2].url \in tasks[1].result.links

\* C18: when crawl_async returns with max_depth >= 0 and max_pages >= 1, the
\* queue is empty, pages_crawled equals the size of visited, and every
\* address of visited has been dispatched to exactly one fetch, also when the
\* loop stops on the budget.
NothingLeftUnfetched ==
    (pc = "done" /\ max_depth >= 0 /\ max_pages >= 1) =>
        /\ queue = <<>>
        /\ pages_crawled = Cardinality(visited)
        /\ \A a \in Addresses : dispatched[a] = IF a \in visited THEN 1 ELSE 0

\* C18 witness: crawl_async has returned because the budget of two pages was
\* hit, after a fetched page offered a link the budget kept out of visited.
NothingLeftUnfetched_Witness ==
    /\ pc = "done"
    /\ max_depth >= 0
    /\ max_pages = 2
    /\ pages_crawled = max_pages
    /\ Cardinality(visited) = 2
    /\ \E i \in 1..Len(tasks) : ~(tasks[i].result.links \subseteq visited)

\* C19: every address in the queue is in visited; visited is the disjoint
\* union of the addresses in the queue and the addresses taken out of it,
\* each taken out either into a batch or for its depth; visited never loses
\* an address.
InQueue == Urls(queue)
Dispatched == {a \in Addresses : dispatched[a] > 0}
EverEnqueued == {a \in Addresses : enqueued[a] > 0}
TooDeep == {queue[k].url : k \in {j \in 1..Len(queue) : queue[j].depth > max_depth}}

QueueVisitedPartition ==
    /\ [](/\ InQueue \subseteq visited
          /\ Cardinality(InQueue) = Len(queue)
          /\ visited = EverEnqueued
          /\ \A a \in Addresses : enqueued[a] <= 1
          /\ InQueue \cap Dispatched = {}
          /\ Dispatched \subseteq visited
          /\ max_depth >= 0 => visited = InQueue \cup Dispatched)
    /\ [][/\ visited \subseteq visited'
          /\ (InQueue \ Urls(queue')) \subseteq (Urls(urls_to_crawl') \cup TooDeep)
          /\ (InQueue \ Urls(queue')) \cap TooDeep \cap Urls(urls_to_crawl') = {}]_vars

\* C19 witness: the seed has been dispatched and both of its links wait in
\* the queue.
QueueVisitedPartition_Witness ==
    /\ Dispatched = {Seed}
    /\ Cardinality(InQueue) = 2
    /\ visited = InQueue \cup Dispatched

\* C20: with max_depth below 0 the first dequeue drops the seed entry and
\* leaves the queue and the batch empty, no fetch is ever dispatched, and
\* crawl_async returns (0, set()) with the seed still in visited.
NegativeDepth ==
    /\ [](max_depth < 0 =>
            /\ tasks = <<>>
            /\ \A a \in Addresses : dispatched[a] = 0
            /\ pc = "done" => (Returned = <<0, {}>> /\ visited = {Seed}))
    /\ [][(max_depth < 0 /\ pc = "loop"
           /\ LoopTest(queue, pages_crawled, max_pages)) =>
            /\ queue = <<Entry(Seed, 0)>>
            /\ queue' = <<>>
            /\ urls_to_crawl' = <<>>
            /\ pc' = "done"]_vars

\* C20 witness: crawl_async has returned after the dequeue dropped the seed.
NegativeDepth_Witness ==
    /\ pc = "done"
    /\ max_depth < 0
    /\ max_pages >= 1
    /\ queue = <<>>
    /\ visited = {Seed}
    /\ pages_crawled = 0

====
